---- MODULE Spec2Model ----
(***************************************************************************)
(* Model of the event core of utka, a command-line client of the Asana     *)
(* API: the transport (client.Client.doRequest), the event manager         *)
(* (events.EventManager: GetByResource, InitializeSync, Poll) and the      *)
(* three `events` sub-commands that drive it (get, sync, poll).            *)
(***************************************************************************)
EXTENDS Integers, Sequences, FiniteSets, TLC

(***************************************************************************)
(* Bounds of the model.                                                    *)
(***************************************************************************)
\* longest scripted answer list of the test server (TestGetByResource)
MaxPages == 2
\* most events in one page of the server
MaxPageLen == 2
\* most fetch cycles of one polling session
MaxFetches == 2
\* most requests of one listing
MaxListRequests == 2
\* most filters of a webhook before the command runs
MaxFilters == 2
\* most calls that other clients make while a filter command runs
MaxHookCalls == 1

(***************************************************************************)
(* Values.                                                                 *)
(***************************************************************************)
Events == {"e1", "e2"}
\* sync tokens; "" is the empty (absent) token
Syncs == {"", "t1", "t2"}
Resources == {"r1"}
Statuses == {200, 400, 412}
Messages == {"m1", "m2"}
\* bodies that are not JSON, as sequences of characters
RawTexts == {<<"x">>, <<"\f", "x", "\n">>}
\* poll intervals (seconds)
Intervals == {1, 5}

SeqsUpTo(S, n) == UNION {[1..k -> S] : k \in 0..n}

(***************************************************************************)
(* Response bodies.  A body is the JSON of an event page, the JSON of an   *)
(* error envelope {"errors":[{"message":..}..]} or text that is not JSON.  *)
(***************************************************************************)
PageBody(d, s, h) ==
  [type |-> "page", data |-> d, sync |-> s, has_more |-> h,
   msgs |-> <<>>, text |-> <<>>]
\* an event page that also carries a next_page object with this offset
PageBodyNext(d, s, h, o) ==
  [type |-> "page", data |-> d, sync |-> s, has_more |-> h,
   msgs |-> <<>>, text |-> <<>>, next_page |-> [present |-> TRUE, Offset |-> o]]
ErrorsBody(m) ==
  [type |-> "errors", data |-> <<>>, sync |-> "", has_more |-> FALSE,
   msgs |-> m, text |-> <<>>]
RawBody(t) ==
  [type |-> "raw", data |-> <<>>, sync |-> "", has_more |-> FALSE,
   msgs |-> <<>>, text |-> t]
NoBody == RawBody(<<>>)

Bodies ==
  {PageBody(d, s, h) : d \in SeqsUpTo(Events, MaxPageLen), s \in Syncs, h \in BOOLEAN}
  \cup {ErrorsBody(m) : m \in {<<>>, <<"m1">>, <<"m2", "m1">>}}
  \cup {RawBody(t) : t \in RawTexts}

\* what the HTTP layer hands back: a failure of the layer itself (net), or
\* a status and a body
HttpResponse(st, b) == [net |-> FALSE, status |-> st, body |-> b]
NetFailure == [net |-> TRUE, status |-> 0, body |-> NoBody]
Responses == {NetFailure} \cup {HttpResponse(st, b) : st \in Statuses, b \in Bodies}

(***************************************************************************)
(* EventsResponse and errors.                                              *)
(***************************************************************************)
\* next_page of a page: absent (null), or an object with an offset
NoNextPage == [present |-> FALSE, Offset |-> ""]
NextPageOf(o) == [present |-> TRUE, Offset |-> o]
\* next_page of a JSON body; the bodies built without one have none
NextPageIn(b) == IF "next_page" \in DOMAIN b THEN b.next_page ELSE NoNextPage

EventsResponse(d, s, h) ==
  [Data |-> d, Sync |-> s, HasMore |-> h, NextPage |-> NoNextPage]
NilResponse == EventsResponse(<<>>, "", FALSE)

\* an error value: wrap is the prefix added by the event manager, kind the
\* failure of the transport ("request failed", "API error", "parse"), status
\* and msg what an API error prints; raw is TRUE when msg is the raw body
Error(w, k, st, m, r, b) ==
  [wrap |-> w, kind |-> k, status |-> st, msg |-> m, raw |-> r, body |-> b]
NoError == Error("", "nil", 0, "", FALSE, NoBody)
Wrap(w, e) == [e EXCEPT !.wrap = w]

\* unicode.IsSpace: the characters that strings.TrimSpace strips.  A
\* character that a TLA+ string cannot hold is written by its name: "\\v"
\* is the vertical tab U+000B, "U+0085" the next-line character, and so on
Whitespace ==
  {" ", "\n", "\t", "\r", "\f", "\\v", "U+0085", "U+00A0", "U+1680",
   "U+2000", "U+2001", "U+2002", "U+2003", "U+2004", "U+2005", "U+2006",
   "U+2007", "U+2008", "U+2009", "U+200A", "U+2028", "U+2029", "U+202F",
   "U+205F", "U+3000"}
RECURSIVE TrimLeft(_)
TrimLeft(t) ==
  IF t # <<>> /\ Head(t) \in Whitespace THEN TrimLeft(Tail(t)) ELSE t
RECURSIVE TrimRight(_)
TrimRight(t) ==
  IF t # <<>> /\ t[Len(t)] \in Whitespace
  THEN TrimRight(SubSeq(t, 1, Len(t) - 1)) ELSE t
\* strings.TrimSpace on the text of a body (JSON bodies carry no outer space)
TrimSpace(b) == [b EXCEPT !.text = TrimLeft(TrimRight(b.text))]

\* json.Unmarshal of a body into EventsResponse: any JSON object decodes
\* (unknown fields are ignored, missing ones stay zero), other text fails
Unmarshal(b) ==
  IF b.type = "raw"
  THEN [ok |-> FALSE, response |-> NilResponse]
  ELSE [ok |-> TRUE,
        response |-> [EventsResponse(b.data, b.sync, b.has_more)
                        EXCEPT !.NextPage = NextPageIn(b)]]

\* the error built from a status >= 400: errors[0].message when the envelope
\* parses with an entry, else the raw body (trimmed by the transport only)
ApiError(st, b, trim) ==
  IF b.type # "raw" /\ Len(b.msgs) > 0
  THEN Error("", "API error", st, b.msgs[1], FALSE, NoBody)
  ELSE Error("", "API error", st, "", TRUE, IF trim THEN TrimSpace(b) ELSE b)

\* Client.doRequest / Client.Get: the body, or an error and no body
doRequest_skip412(resp) ==
  IF resp.net
  THEN [body |-> NoBody, err |-> Error("", "request failed", 0, "", FALSE, NoBody)]
  ELSE IF resp.status >= 400 /\ resp.status # 412
       THEN [body |-> NoBody, err |-> ApiError(resp.status, resp.body, TRUE)]
       ELSE [body |-> resp.body, err |-> NoError]
doRequest_lenient(resp) ==
  IF resp.net
  THEN [body |-> NoBody, err |-> Error("", "request failed", 0, "", FALSE, NoBody)]
  ELSE IF resp.status > 400
       THEN [body |-> NoBody, err |-> ApiError(resp.status, resp.body, TRUE)]
       ELSE [body |-> resp.body, err |-> NoError]
doRequest(resp) ==
  IF resp.net
  THEN [body |-> NoBody, err |-> Error("", "request failed", 0, "", FALSE, NoBody)]
  ELSE IF resp.status >= 400
       THEN [body |-> NoBody, err |-> ApiError(resp.status, resp.body, TRUE)]
       ELSE [body |-> resp.body, err |-> NoError]

\* Client.PostForm: its own request, the same handling of the answer
PostForm(resp) ==
  IF resp.net
  THEN [body |-> NoBody, err |-> Error("", "request failed", 0, "", FALSE, NoBody)]
  ELSE IF resp.status >= 400
       THEN [body |-> NoBody, err |-> ApiError(resp.status, resp.body, TRUE)]
       ELSE [body |-> resp.body, err |-> NoError]

\* the query of an events request: resource always, sync only when given
Request_alwaysSync(res, tok) == [resource |-> res, hasSync |-> TRUE, sync |-> tok]
Request_staleSync(res, tok) ==
  [resource |-> res, hasSync |-> tok # "", sync |-> IF tok = "" THEN "" ELSE "t1"]
Request_dropSync(res, tok) == [resource |-> res, hasSync |-> FALSE, sync |-> ""]
Request(res, tok) == [resource |-> res, hasSync |-> tok # "", sync |-> tok]

\* the test server answers request number n+1 with responses[n]; Remaining
\* is what it still has to give after n requests, Answer its next answer
\* (a request past the end of the list gets no answer)
Remaining(responses, n) == SubSeq(responses, n + 1, Len(responses))
Answer(server) ==
  IF server = <<>> THEN NetFailure ELSE Head(server)

\* EventManager.GetByResource against a server that answers from the list
\* `server`: the requests issued and the (response, error) pair returned
GetByResource_drain_step(res, tok, server, reqs, acc) ==
  LET r == doRequest(Answer(server))
      u == Unmarshal(r.body)
  IN  [reqs |-> Append(reqs, Request(res, tok)), r |-> r, u |-> u,
       acc |-> acc \o u.response.Data]
RECURSIVE GetByResource_drain_from(_, _, _, _, _)
GetByResource_drain_from(res, tok, server, reqs, acc) ==
  LET s == GetByResource_drain_step(res, tok, server, reqs, acc)
  IN  IF s.r.err # NoError
      THEN [requests |-> s.reqs, response |-> NilResponse,
            err |-> Wrap("failed to get events", s.r.err)]
      ELSE IF ~s.u.ok
      THEN [requests |-> s.reqs, response |-> NilResponse,
            err |-> Error("failed to parse response", "parse", 0, "", FALSE, NoBody)]
      ELSE IF s.u.response.HasMore /\ Len(server) > 1
      THEN GetByResource_drain_from(res, s.u.response.Sync, Tail(server), s.reqs, s.acc)
      ELSE [requests |-> s.reqs,
            response |-> EventsResponse(s.acc, s.u.response.Sync, s.u.response.HasMore),
            err |-> NoError]
GetByResource_drain(res, tok, server) ==
  GetByResource_drain_from(res, tok, server, <<>>, <<>>)

GetByResource_partial(res, tok, server) ==
  LET r == doRequest(Answer(server))
      u == Unmarshal(Answer(server).body)
      reqs == <<Request(res, tok)>>
  IN  IF r.err # NoError
      THEN [requests |-> reqs, response |-> u.response,
            err |-> Wrap("failed to get events", r.err)]
      ELSE IF ~u.ok
      THEN [requests |-> reqs, response |-> NilResponse,
            err |-> Error("failed to parse response", "parse", 0, "", FALSE, NoBody)]
      ELSE [requests |-> reqs, response |-> u.response, err |-> NoError]
GetByResource(res, tok, server) ==
  LET r == doRequest(Answer(server))
      u == Unmarshal(r.body)
      reqs == <<Request(res, tok)>>
  IN  IF r.err # NoError
      THEN [requests |-> reqs, response |-> NilResponse,
            err |-> Wrap("failed to get events", r.err)]
      ELSE IF ~u.ok
      THEN [requests |-> reqs, response |-> NilResponse,
            err |-> Error("failed to parse response", "parse", 0, "", FALSE, NoBody)]
      ELSE [requests |-> reqs, response |-> u.response, err |-> NoError]

\* EventManager.InitializeSync: a raw GET without cursor; 412 is a success
InitializeSync_generic(res, server) ==
  LET resp == Answer(server)
      u == Unmarshal(resp.body)
      reqs == <<Request(res, "")>>
  IN  IF resp.net
      THEN [requests |-> reqs, response |-> NilResponse,
            err |-> Error("request failed", "request failed", 0, "", FALSE, NoBody)]
      ELSE IF ~u.ok
      THEN [requests |-> reqs, response |-> NilResponse,
            err |-> Error("failed to parse response", "parse", 0, "", FALSE, NoBody)]
      ELSE IF resp.status >= 400
      THEN [requests |-> reqs, response |-> NilResponse,
            err |-> ApiError(resp.status, resp.body, FALSE)]
      ELSE [requests |-> reqs, response |-> u.response, err |-> NoError]
InitializeSync(res, server) ==
  LET resp == Answer(server)
      u == Unmarshal(resp.body)
      reqs == <<Request(res, "")>>
  IN  IF resp.net
      THEN [requests |-> reqs, response |-> NilResponse,
            err |-> Error("request failed", "request failed", 0, "", FALSE, NoBody)]
      ELSE IF ~u.ok
      THEN [requests |-> reqs, response |-> NilResponse,
            err |-> Error("failed to parse response", "parse", 0, "", FALSE, NoBody)]
      ELSE IF resp.status = 412
      THEN [requests |-> reqs, response |-> u.response, err |-> NoError]
      ELSE IF resp.status >= 400
      THEN [requests |-> reqs, response |-> NilResponse,
            err |-> ApiError(resp.status, resp.body, FALSE)]
      ELSE [requests |-> reqs, response |-> u.response, err |-> NoError]

(***************************************************************************)
(* The filter of `events get`: expr.Compile and expr.Run on the event      *)
(* turned into a map.                                                      *)
(***************************************************************************)
\* values of the map: nil, a string, or a map from keys to values
Nil == [t |-> "nil"]
Str(x) == [t |-> "str", s |-> x]
Map(f) == [t |-> "map", m |-> f]

\* json.Marshal of the Event followed by json.Unmarshal into a map: fields
\* that are empty or nil are omitted (omitempty), so they are absent keys
EventMap(e) ==
  IF e = "e1"
  THEN Map([k \in {"action"} |-> Str("changed")])
  ELSE Map([k \in {"action", "change"} |->
              IF k = "action" THEN Str("changed")
              ELSE Map([j \in {"field"} |-> Str("name")])])

\* the expressions given to --filter
FilterExprs ==
  { "event.action == \"changed\"",
    "event.action == \"added\"",
    "event.change.field == \"name\"",
    "event.action == \"changed\" && event.change.field == \"name\"",
    "event.user.name == \"John Doe\"",
    "event.action ==" }
Cmp(path, lit) == [path |-> path, lit |-> lit]
\* the expressions of the help text and of the tests that compile, each
\* with its program: the && chain of comparisons of a path under `event`
\* with a string
CompileTable ==
  ("event.action == \"changed\"" :> <<Cmp(<<"action">>, "changed")>>)
  @@ ("event.action == \"added\"" :> <<Cmp(<<"action">>, "added")>>)
  @@ ("event.change.field == \"name\"" :> <<Cmp(<<"change", "field">>, "name")>>)
  @@ ("event.change.field == \"completed\"" :>
        <<Cmp(<<"change", "field">>, "completed")>>)
  @@ ("event.user.name == \"John Doe\"" :> <<Cmp(<<"user", "name">>, "John Doe")>>)
  @@ ("event.change.new_value.gid == \"123456\"" :>
        <<Cmp(<<"change", "new_value", "gid">>, "123456")>>)
  @@ ("event.change.new_value.gid == \"valid\"" :>
        <<Cmp(<<"change", "new_value", "gid">>, "valid")>>)
  @@ ("event.change.new_value.gid == \"1210930954402852\"" :>
        <<Cmp(<<"change", "new_value", "gid">>, "1210930954402852")>>)
  @@ ("event.change.new_value.display_value == \"Client Meeting or Introduction\"" :>
        <<Cmp(<<"change", "new_value", "display_value">>,
              "Client Meeting or Introduction")>>)
  @@ ("event.action == \"changed\" && event.change.field == \"name\"" :>
        <<Cmp(<<"action">>, "changed"), Cmp(<<"change", "field">>, "name")>>)
  @@ ("event.action == \"changed\" && event.resource.resource_subtype == \"default_task\"" :>
        <<Cmp(<<"action">>, "changed"),
          Cmp(<<"resource", "resource_subtype">>, "default_task")>>)
  @@ ("event.action == \"added\" && event.resource.resource_subtype == \"default_task\"" :>
        <<Cmp(<<"action">>, "added"),
          Cmp(<<"resource", "resource_subtype">>, "default_task")>>)
  @@ ("event.action == \"changed\" && event.change.new_value.gid == \"1210930954402852\"" :>
        <<Cmp(<<"action">>, "changed"),
          Cmp(<<"change", "new_value", "gid">>, "1210930954402852")>>)
  @@ ("event.action == \"changed\" && event.user.name == \"John Doe\" && event.change.field == \"name\"" :>
        <<Cmp(<<"action">>, "changed"), Cmp(<<"user", "name">>, "John Doe"),
          Cmp(<<"change", "field">>, "name")>>)
\* the expression of the tests that lacks an operand
Malformed == {"event.action =="}
\* expr.Compile(filterExpr, expr.AsBool()): an error for the malformed
\* expression, the program for an expression of the table; no other
\* expression is modelled
Compile_lenient(filterExpr) ==
  IF filterExpr \in Malformed
  THEN [ok |-> TRUE, program |-> <<>>]
  ELSE [ok |-> TRUE, program |-> CompileTable[filterExpr]]
Compile(filterExpr) ==
  IF filterExpr \in Malformed
  THEN [ok |-> FALSE, program |-> <<>>]
  ELSE [ok |-> TRUE, program |-> CompileTable[filterExpr]]

\* member access: a key of a map gives its value, or nil when the key is
\* absent; a member of nil or of a string cannot be fetched
FetchField(v, k) ==
  IF v.t = "map"
  THEN [err |-> FALSE, v |-> IF k \in DOMAIN v.m THEN v.m[k] ELSE Nil]
  ELSE [err |-> TRUE, v |-> Nil]
RECURSIVE FetchPath(_, _)
FetchPath(v, path) ==
  IF path = <<>>
  THEN [err |-> FALSE, v |-> v]
  ELSE LET r == FetchField(v, Head(path))
       IN  IF r.err THEN r ELSE FetchPath(r.v, Tail(path))
\* path == "literal": nil or a map is not equal to a string
RunCmp(c, event) ==
  LET r == FetchPath(event, c.path)
  IN  IF r.err
      THEN [err |-> TRUE, value |-> FALSE]
      ELSE [err |-> FALSE, value |-> r.v.t = "str" /\ r.v.s = c.lit]
\* expr.Run(program, env): && evaluates its right side only when the left
\* side is true
RECURSIVE Run(_, _)
Run(program, event) ==
  IF program = <<>>
  THEN [err |-> FALSE, value |-> TRUE]
  ELSE LET l == RunCmp(Head(program), event)
       IN  IF l.err \/ ~l.value THEN l ELSE Run(Tail(program), event)

\* the loop of eventsGetCmd over events.Data: an event whose evaluation
\* fails is skipped, an event whose result is true is appended
RECURSIVE FilterEvents_keepErrors(_, _)
FilterEvents_keepErrors(program, data) ==
  IF data = <<>>
  THEN [data |-> <<>>, evals |-> 0]
  ELSE LET r == Run(program, EventMap(Head(data)))
           rest == FilterEvents_keepErrors(program, Tail(data))
       IN  [data |-> IF r.err \/ r.value THEN <<Head(data)>> \o rest.data
                     ELSE rest.data,
            evals |-> 1 + rest.evals]
RECURSIVE FilterEvents(_, _)
FilterEvents(program, data) ==
  IF data = <<>>
  THEN [data |-> <<>>, evals |-> 0]
  ELSE LET r == Run(program, EventMap(Head(data)))
           rest == FilterEvents(program, Tail(data))
       IN  [data |-> IF r.err THEN rest.data
                     ELSE IF r.value THEN <<Head(data)>> \o rest.data
                     ELSE rest.data,
            evals |-> 1 + rest.evals]

\* events.Data = filteredEvents: the response printed after filtering
ApplyFilter_fresh(events, filteredEvents) == EventsResponse(filteredEvents, "", FALSE)
ApplyFilter(events, filteredEvents) == [events EXCEPT !.Data = filteredEvents]

(***************************************************************************)
(* Listings of projects and tasks.                                         *)
(***************************************************************************)
\* the items a listing page may hold; "b" is a completed task
Items == {"a", "b"}
Completed(item) == item = "b"
\* next_page of a listing page
NextPages == {NoNextPage, NextPageOf(""), NextPageOf("o1"), NextPageOf("o2")}
ListBody(d, np) ==
  [type |-> "list", data |-> <<>>, sync |-> "", has_more |-> FALSE,
   msgs |-> <<>>, text |-> <<>>, items |-> d, next_page |-> np]
\* the answers to a listing request
ListResponses ==
  {NetFailure, HttpResponse(200, RawBody(<<"x">>)),
   HttpResponse(400, ErrorsBody(<<"m1">>))}
  \cup {HttpResponse(200, ListBody(d, np)) :
          d \in SeqsUpTo(Items, MaxPageLen), np \in NextPages}

\* json.Unmarshal of a body into ProjectsResponse / TasksResponse
UnmarshalList(b) ==
  IF b.type = "raw"
  THEN [ok |-> FALSE, page |-> [Data |-> <<>>, NextPage |-> NoNextPage]]
  ELSE IF b.type = "list"
  THEN [ok |-> TRUE, page |-> [Data |-> b.items, NextPage |-> b.next_page]]
  ELSE [ok |-> TRUE, page |-> [Data |-> <<>>, NextPage |-> NoNextPage]]

\* the functions that list until the pages are exhausted
ListFunctions ==
  {"ListByWorkspace", "ListByTeam", "ListByProject", "ListByAssignee", "ListBySection"}
IsTaskListing(fn) == fn \in {"ListByProject", "ListByAssignee", "ListBySection"}
\* the parameters built before the loop; `limit` is sent only when > 0
InitialParams(args) ==
  [endpoint |-> IF IsTaskListing(args.fn) THEN "/tasks" ELSE "/projects",
   scope |-> IF args.fn = "ListByWorkspace" THEN "workspace"
             ELSE IF args.fn = "ListByTeam" THEN "team"
             ELSE IF args.fn = "ListByProject" THEN "project"
             ELSE IF args.fn = "ListByAssignee" THEN "assignee"
             ELSE "section",
   workspace |-> args.fn = "ListByAssignee",
   archived |-> IF IsTaskListing(args.fn) THEN ""
                ELSE IF args.flag THEN "true" ELSE "false",
   completed_since |-> IF IsTaskListing(args.fn) THEN "now" ELSE "",
   limit |-> IF args.limit > 0 THEN args.limit ELSE 0,
   offset |-> ""]
\* what a page adds to the result: every project; of the tasks the
\* incomplete ones, and the completed ones when `completed` is set
Collect_all(args, data) == data
RECURSIVE Collect(_, _)
Collect(args, data) ==
  IF data = <<>>
  THEN <<>>
  ELSE IF ~IsTaskListing(args.fn) \/ args.flag \/ ~Completed(Head(data))
  THEN <<Head(data)>> \o Collect(args, Tail(data))
  ELSE Collect(args, Tail(data))
\* the loop goes on after a page
ListMore_never(page) == FALSE
ListMore_anyNextPage(page) == page.NextPage.present
ListMore(page) == page.NextPage.present /\ page.NextPage.Offset # ""
\* the error wrapped by the listing
ListWrap(fn) ==
  IF IsTaskListing(fn) THEN "failed to list tasks" ELSE "failed to list projects"
\* what the listing returns on an error, and at the end of the pages
ListFail_partial(items, err) ==
  [done |-> TRUE, isNil |-> FALSE, items |-> items, err |-> err]
ListFail(items, err) ==
  [done |-> TRUE, isNil |-> TRUE, items |-> <<>>, err |-> err]
ListReturn(items) ==
  [done |-> TRUE, isNil |-> FALSE, items |-> items, err |-> NoError]

(***************************************************************************)
(* Webhooks and their filters.                                             *)
(***************************************************************************)
WebhookFilter(a, t, st) == [Action |-> a, ResourceType |-> t, ResourceSubtype |-> st]
\* the filters a webhook may hold before the command runs
StoredFilters == {WebhookFilter("added", "task", ""), WebhookFilter("", "project", "")}
Webhook(act, tgt, res, fs) ==
  [Active |-> act, Target |-> tgt, Resource |-> res, Filters |-> fs]
NoWebhook == Webhook(FALSE, "", "", <<>>)
\* the flags --action, --resource-type, --resource-subtype and what is typed
\* at the prompts: the number of a filter (badInput when Scanf cannot read
\* a number) and the confirmation
HookArgs(op, a, t, st, choice, confirm) ==
  [op |-> op, action |-> a, resourceType |-> t, resourceSubtype |-> st,
   choice |-> choice, confirm |-> confirm, badInput |-> FALSE]
NoHookArgs == HookArgs("", "", "", "", 0, FALSE)
\* the locals of a filter command: the webhook that Get returned and the
\* list of filters to send
HookLocal(w, fs) == [webhook |-> w, filters |-> fs]
NoHookLocal == HookLocal(NoWebhook, <<>>)

\* the body of a webhook response, {"data": {...}}
WebhookBody(w) == [type |-> "webhook", webhook |-> w]
\* json.Unmarshal into WebhookResponse: text that is not JSON and a data
\* array fail; an object without data leaves Data nil
UnmarshalWebhook(b) ==
  IF b.type = "webhook" THEN [ok |-> TRUE, isNil |-> FALSE, webhook |-> b.webhook]
  ELSE IF b.type = "errors" THEN [ok |-> TRUE, isNil |-> TRUE, webhook |-> NoWebhook]
  ELSE [ok |-> FALSE, isNil |-> TRUE, webhook |-> NoWebhook]
\* the (*Webhook, error) that Get, Update, UpdateFilters and Create return:
\* the error of the transport wrapped, or the parse error, or response.Data
WebhookResult(resp, wrap) ==
  LET d == doRequest(resp)
      u == UnmarshalWebhook(d.body)
  IN  IF d.err # NoError THEN [err |-> wrap, isNil |-> TRUE, webhook |-> NoWebhook]
      ELSE IF ~u.ok
      THEN [err |-> "failed to parse response", isNil |-> TRUE, webhook |-> NoWebhook]
      ELSE [err |-> "", isNil |-> u.isNil, webhook |-> u.webhook]

\* the JSON object under "data" of a request: the fields present and their
\* values
PutBody(keys, act, fs) == [keys |-> keys, active |-> act, filters |-> fs]
\* WebhookManager.Update: a Webhook that has only Filters set is marshalled;
\* "active" has no omitempty and is always written, "filters" has it
Update(filters) ==
  PutBody({"active"} \cup (IF filters # <<>> THEN {"filters"} ELSE {}), FALSE, filters)
\* WebhookManager.UpdateFilters: a map with the one key "filters"
UpdateFilters_struct(filters) == Update(filters)
UpdateFilters(filters) == PutBody({"filters"}, FALSE, filters)
\* WebhookManager.Create: resource, target, active=true and the filters
Create(res, tgt, filters) ==
  [keys |-> {"resource", "active"} \cup (IF tgt # "" THEN {"target"} ELSE {})
              \cup (IF filters # <<>> THEN {"filters"} ELSE {}),
   resource |-> res, target |-> tgt, active |-> TRUE, filters |-> filters]
\* PUT /webhooks/{gid}: the server sets the fields that the body carries
ServerPut(w, body) ==
  [w EXCEPT !.Active = IF "active" \in body.keys THEN body.active ELSE @,
            !.Filters = IF "filters" \in body.keys THEN body.filters ELSE @]
\* the answers of the server that are failures, and those to a request it
\* has served for the webhook w: its JSON, an empty body, JSON without data
HookFailures == {NetFailure, HttpResponse(404, ErrorsBody(<<"m1">>))}
HookSuccesses(w) ==
  {HttpResponse(200, WebhookBody(w)), HttpResponse(200, NoBody),
   HttpResponse(200, ErrorsBody(<<>>))}
\* GET /webhooks/{gid}: no webhook, no success
GetOutcomes(w) ==
  HookFailures \cup (IF w = NoWebhook THEN {} ELSE HookSuccesses(w))
\* a request that writes: the webhook afterwards and the answer.  A status
\* of success means it was served, a status of failure that it was not; a
\* failure of the network may come before or after the server has served it
WriteOutcomes(w, after) ==
  {[hook |-> w, resp |-> r] : r \in HookFailures}
  \cup {[hook |-> after, resp |-> NetFailure]}
  \cup {[hook |-> after, resp |-> r] : r \in HookSuccesses(after)}
PutOutcomes(w, body) ==
  IF w = NoWebhook
  THEN {[hook |-> w, resp |-> r] : r \in HookFailures}
  ELSE WriteOutcomes(w, ServerPut(w, body))
\* POST /webhooks makes the webhook (one that exists already is another
\* webhook, which stays as it is)
PostOutcomes(w, body) ==
  LET made == Webhook(body.active, body.target, body.resource, body.filters)
  IN  IF w # NoWebhook
      THEN {[hook |-> w, resp |-> r] : r \in HookFailures \cup HookSuccesses(made)}
      ELSE WriteOutcomes(w, made)
\* DELETE /webhooks/{gid}: the answer to a served request is an empty object
DeleteOutcomes(w) ==
  IF w = NoWebhook
  THEN {[hook |-> w, resp |-> r] : r \in HookFailures}
  ELSE {[hook |-> w, resp |-> r] : r \in HookFailures}
       \cup {[hook |-> NoWebhook, resp |-> r] :
               r \in {NetFailure, HttpResponse(200, ErrorsBody(<<>>))}}

\* the filter built from the flags ("all" means no action)
NewFilter(args) ==
  WebhookFilter(IF args.action = "all" THEN "" ELSE args.action,
                args.resourceType, args.resourceSubtype)
\* the filter with the fields overwritten for which a flag is given
EditFilter(f, args) ==
  WebhookFilter(IF args.action = "" THEN f.Action
                ELSE IF args.action = "all" THEN "" ELSE args.action,
                IF args.resourceType = "" THEN f.ResourceType ELSE args.resourceType,
                IF args.resourceSubtype = "" THEN f.ResourceSubtype
                ELSE args.resourceSubtype)
RemoveAt(fs, i) == SubSeq(fs, 1, i - 1) \o SubSeq(fs, i + 1, Len(fs))
\* the filters each command computes from those of the webhook it got, or
\* the reason why it stops without an update
Proceed(fs) == [stop |-> "", filters |-> fs]
Stop(why) == [stop |-> why, filters |-> <<>>]
FilterAdd(fs, args) == Proceed(Append(fs, NewFilter(args)))
FilterEdit(fs, args) ==
  IF Len(fs) > 1
  THEN IF args.badInput THEN Stop("fatal")
       ELSE IF args.choice = 0 THEN Proceed(Append(fs, NewFilter(args)))
       ELSE IF args.choice > 0 /\ args.choice <= Len(fs)
       THEN Proceed([fs EXCEPT ![args.choice] = EditFilter(fs[args.choice], args)])
       ELSE Stop("fatal")
  ELSE IF Len(fs) = 1
  THEN Proceed(<<EditFilter(fs[1], args)>>)
  ELSE IF args.action = "" /\ args.resourceType = "" /\ args.resourceSubtype = ""
  THEN Stop("fatal")
  ELSE Proceed(<<NewFilter(args)>>)
FilterDelete(fs, args) ==
  IF Len(fs) = 0 THEN Stop("returned")
  ELSE IF Len(fs) = 1
  THEN IF args.confirm THEN Proceed(<<>>) ELSE Stop("returned")
  ELSE IF args.badInput THEN Stop("fatal")
  ELSE IF args.choice < 1 \/ args.choice > Len(fs) THEN Stop("fatal")
  ELSE Proceed(RemoveAt(fs, args.choice))
\* what the command computes from the filters it got
FilterPlan(op, fs, args) ==
  IF op = "add" THEN FilterAdd(fs, args)
  ELSE IF op = "edit" THEN FilterEdit(fs, args)
  ELSE FilterDelete(fs, args)
\* the command reads from the terminal before it computes: edit asks for a
\* number when there are several filters, delete whenever there is one
Prompts(op, fs) ==
  \/ op = "edit" /\ Len(fs) > 1
  \/ op = "delete" /\ Len(fs) >= 1

(***************************************************************************)
(* State.                                                                  *)
(***************************************************************************)
VARIABLES
  cmd,          \* the sub-command run: "get", "sync" or "poll"
  resource,     \* --gid
  syncToken,    \* --sync ("" when not given)
  pollInterval, \* --interval
  server,       \* the answer list of the scripted test server (responses)
  callCount,    \* HTTP requests the server has received
  requests,     \* the requests of the get / sync operation, in order
  result,       \* what the get / sync operation returned
  pc,           \* position of the poll command and of the Poll goroutine
  currentSync,  \* Poll: currentSync
  response,     \* Poll: the page being emitted
  idx,          \* Poll: index in response.Data of the next event to send
  pollErr,      \* Poll: the error being sent
  eventsOpen,   \* eventsChan is not closed
  errorsOpen,   \* errorsChan is not closed
  received,     \* events the consumer has received from eventsChan
  errorCount,   \* errors the consumer has received from errorsChan
  fetched,      \* Data of the pages Poll fetched successfully, concatenated
  lastFetch,    \* Poll: cursor sent and outcome of the latest fetch
  trace,        \* Poll: the fetches and sleeps of the loop, in order
  cancelled,    \* the caller of Poll has asked the polling to stop
  method,       \* transport call: "GET", "POST", "PUT", "DELETE" or "POSTFORM"
  callResult,   \* transport call: the ([]byte, error) it returned
  filter,       \* events get: --filter
  output,       \* events get: what the command printed, or how it died
  evals,        \* events get: the number of expr.Run calls made
  listArgs,     \* listing: the function called and its arguments
  params,       \* listing: the query parameters of the next request
  allItems,     \* listing: allProjects / allTasks
  listPage,     \* listing: the page decoded last
  listResult,   \* listing: the (slice, error) returned
  again,        \* events get run a second time: what GetByResource returned
  handshake,    \* events poll: the call of InitializeSync made before Poll
  latestSync,   \* Poll: the last non-empty sync a fetch returned, else the
                \* cursor Poll was started with
  consumer,     \* Poll: the channels its caller receives from
  hook,         \* webhooks: the webhook as the server holds it
  hookArgs,     \* webhooks: the filter command, its flags and typed answers
  puts,         \* webhooks: the PUT requests sent, with sender and outcome
  hookResult,   \* webhooks: how the filter command ended
  hookPc,       \* webhooks: what the filter command waits for
  hookLocal,    \* webhooks: its locals `webhook` and `filters`
  hookCalls     \* webhooks: the calls that other clients made

cmdVars == <<cmd, resource, syncToken, pollInterval>>
opVars == <<server, callCount, requests, result>>
pollVars == <<pc, currentSync, response, idx, pollErr, eventsOpen, errorsOpen,
              received, errorCount, fetched, lastFetch, trace>>
callVars == <<method, callResult>>
filterVars == <<filter, output, evals>>
listVars == <<listArgs, params, allItems, listPage, listResult>>
hookVars == <<hook, hookArgs, puts, hookResult, hookPc, hookLocal, hookCalls>>
moreVars == <<again, handshake, latestSync, consumer, hookVars>>
restVars == <<callVars, filterVars, listVars, moreVars>>
extVars == <<cancelled, restVars>>
vars == <<cmdVars, opVars, pollVars, extVars>>

NoResult == [done |-> FALSE, response |-> NilResponse, err |-> NoError]
NoFetch == [made |-> FALSE, sync |-> "", hasSync |-> FALSE, ok |-> FALSE]
Fetch(req, ok) ==
  [made |-> TRUE, sync |-> req.sync, hasSync |-> req.hasSync, ok |-> ok]

InitOp ==
  /\ callCount = 0
  /\ requests = <<>>
  /\ result = NoResult
InitPollVars ==
  /\ currentSync = ""
  /\ response = NilResponse
  /\ idx = 0
  /\ pollErr = NoError
  /\ eventsOpen = FALSE
  /\ errorsOpen = FALSE
  /\ received = <<>>
  /\ errorCount = 0
  /\ fetched = <<>>
  /\ lastFetch = NoFetch
  /\ trace = <<>>
NoCall == [done |-> FALSE, body |-> NoBody, err |-> NoError]
InitCall ==
  /\ method = "" /\ callResult = NoCall
NoOutput == [printed |-> FALSE, fatal |-> "", response |-> NilResponse]
Printed(r) == [printed |-> TRUE, fatal |-> "", response |-> r]
Fatal(why) == [printed |-> FALSE, fatal |-> why, response |-> NilResponse]
InitFilterVars ==
  /\ filter = "" /\ output = NoOutput /\ evals = 0
NoArgs == [fn |-> "", flag |-> FALSE, limit |-> 0]
NoParams ==
  [endpoint |-> "", scope |-> "", workspace |-> FALSE, archived |-> "",
   completed_since |-> "", limit |-> 0, offset |-> ""]
NoListPage == [Data |-> <<>>, NextPage |-> NoNextPage]
NoListResult == [done |-> FALSE, isNil |-> TRUE, items |-> <<>>, err |-> NoError]
InitListVars ==
  /\ listArgs = NoArgs /\ params = NoParams /\ allItems = <<>>
  /\ listPage = NoListPage /\ listResult = NoListResult
NoHandshake == [called |-> FALSE, ok |-> FALSE, sync |-> ""]
Handshake(g) == [called |-> TRUE, ok |-> g.err = NoError, sync |-> g.response.Sync]
\* the caller of Poll selects on both channels, as `events poll` does, or
\* ranges over the events channel only
Consumers == {"both", "events"}
InitHookVars ==
  /\ hook = NoWebhook /\ hookArgs = NoHookArgs /\ puts = <<>> /\ hookResult = ""
  /\ hookPc = "" /\ hookLocal = NoHookLocal /\ hookCalls = <<>>
InitMoreBase ==
  /\ again = NoResult
  /\ handshake = NoHandshake
  /\ latestSync = ""
  /\ InitHookVars
InitMore ==
  /\ InitMoreBase
  /\ consumer = "both"
InitRest == InitCall /\ InitFilterVars /\ InitListVars /\ InitMore
InitExt ==
  /\ cancelled = FALSE
  /\ InitRest

\* answer lists of the scripted server: any first answer, then the answers a
\* client that asks again would get (short pages, or a failure)
FollowUps ==
  {NetFailure, HttpResponse(400, ErrorsBody(<<"m1">>))}
  \cup {HttpResponse(200, PageBody(d, s, h)) :
          d \in SeqsUpTo(Events, 1), s \in Syncs, h \in BOOLEAN}
Scripts ==
  {<<r>> \o f : r \in Responses, f \in SeqsUpTo(FollowUps, MaxPages - 1)}

\* `events get --gid r [--sync t]` against a scripted server
InitGet ==
  /\ cmd = "get"
  /\ resource \in Resources
  /\ syncToken \in Syncs
  /\ pollInterval = 0
  /\ server \in Scripts
  /\ pc = "idle"
  /\ InitOp /\ InitPollVars /\ InitExt
\* `events sync --gid r` against a server with one answer
InitSync ==
  /\ cmd = "sync"
  /\ resource \in Resources
  /\ syncToken = ""
  /\ pollInterval = 0
  /\ server \in [1..1 -> Responses]
  /\ pc = "idle"
  /\ InitOp /\ InitPollVars /\ InitExt
\* `events poll --gid r [--sync t] --interval d`; the server is not scripted,
\* it chooses an answer at each request
InitPoll ==
  /\ cmd = "poll"
  /\ resource \in Resources
  /\ syncToken \in Syncs
  /\ pollInterval \in Intervals
  /\ server = <<>>
  /\ pc = "start"
  /\ InitOp /\ InitPollVars /\ InitExt

(***************************************************************************)
(* events get / events sync.                                               *)
(***************************************************************************)
EventsGet ==
  /\ cmd = "get" /\ ~result.done
  /\ LET g == GetByResource(resource, syncToken, Remaining(server, callCount))
     IN  /\ requests' = g.requests
         /\ callCount' = callCount + Len(g.requests)
         /\ UNCHANGED server
         /\ result' = [done |-> TRUE, response |-> g.response, err |-> g.err]
         /\ LET c == Compile(filter)
                f == FilterEvents(c.program, g.response.Data)
            IN  IF g.err # NoError
                THEN output' = Fatal("get") /\ evals' = 0
                ELSE IF filter = ""
                THEN output' = Printed(g.response) /\ evals' = 0
                ELSE IF ~c.ok
                THEN output' = Fatal("compile") /\ evals' = 0
                ELSE /\ output' = Printed(ApplyFilter(g.response, f.data))
                     /\ evals' = f.evals
  /\ UNCHANGED <<cmdVars, pollVars, cancelled, callVars, filter, listVars, moreVars>>

EventsSync ==
  /\ cmd = "sync" /\ ~result.done
  /\ LET g == InitializeSync(resource, Remaining(server, callCount))
     IN  /\ requests' = g.requests
         /\ callCount' = callCount + Len(g.requests)
         /\ UNCHANGED server
         /\ result' = [done |-> TRUE, response |-> g.response, err |-> g.err]
  /\ UNCHANGED <<cmdVars, extVars, pollVars>>

(***************************************************************************)
(* events poll: the command, the Poll goroutine and the consumer.          *)
(***************************************************************************)
\* what the loop does with a failed fetch once the error is sent: it keeps
\* the cursor, keeps both channels open and goes to sleep
PollOnError_exit(cur) ==
  [pc |-> "exited", currentSync |-> cur, eventsOpen |-> FALSE, errorsOpen |-> FALSE]
PollOnError_reset(cur) ==
  [pc |-> "sleep", currentSync |-> "", eventsOpen |-> TRUE, errorsOpen |-> TRUE]
PollOnError_nosleep(cur) ==
  [pc |-> "fetch", currentSync |-> cur, eventsOpen |-> TRUE, errorsOpen |-> TRUE]
PollOnError(cur) ==
  [pc |-> "sleep", currentSync |-> cur, eventsOpen |-> TRUE, errorsOpen |-> TRUE]

\* the cursor right after a successful fetch, before its events are sent
PollOnSuccess_adopt(cur, page) == IF page.Sync # "" THEN page.Sync ELSE cur
PollOnSuccess(cur, page) == cur

\* the event sent at step i of the range loop over response.Data
PollEvent_reversed(page, i) == page.Data[Len(page.Data) + 1 - i]
PollEvent(page, i) == page.Data[i]

\* where the range loop goes once event i is taken by the consumer
PollAfterSend_skip(page, i) == "adopt"
PollAfterSend(page, i) == IF i >= Len(page.Data) THEN "adopt" ELSE "send_event"

\* the cursor after the events of a page are sent
PollAdopt_always(cur, page) == page.Sync
PollAdopt(cur, page) == IF page.Sync # "" THEN page.Sync ELSE cur

\* fetches the loop has started
FetchCount == Cardinality({i \in DOMAIN trace : trace[i].op = "fetch"})

\* the token the command hands to Poll after InitializeSync returned events
PollStartToken_keep(tok, events) == tok
PollStartToken(tok, events) == events.Sync

\* the command: without --sync it initializes the cursor first; then it
\* calls Poll, which makes the channels and starts the goroutine
PollStart ==
  /\ cmd = "poll" /\ pc = "start"
  /\ IF syncToken = ""
     THEN \E resp \in Responses :
            LET g == InitializeSync(resource, <<resp>>)
            IN  /\ callCount' = callCount + Len(g.requests)
                /\ requests' = g.requests
                /\ handshake' = Handshake(g)
                /\ IF g.err # NoError
                   THEN /\ pc' = "fatal"
                        /\ UNCHANGED <<syncToken, currentSync, eventsOpen, errorsOpen,
                                       latestSync>>
                   ELSE /\ pc' = "fetch"
                        /\ syncToken' = PollStartToken(syncToken, g.response)
                        /\ currentSync' = PollStartToken(syncToken, g.response)
                        /\ latestSync' = PollStartToken(syncToken, g.response)
                        /\ eventsOpen' = TRUE
                        /\ errorsOpen' = TRUE
     ELSE /\ pc' = "fetch"
          /\ currentSync' = syncToken
          /\ latestSync' = syncToken
          /\ eventsOpen' = TRUE
          /\ errorsOpen' = TRUE
          /\ UNCHANGED <<syncToken, callCount, requests, handshake>>
  /\ UNCHANGED <<cmd, resource, pollInterval, server, result, response, idx, pollErr,
                 received, errorCount, fetched, lastFetch, trace, cancelled, callVars,
                 filterVars, listVars, again, consumer, hookVars>>

\* the answers the server may give to a fetch of Poll: any answer, or any
\* of those listed in `server` when it lists some
PollAnswers(responses) ==
  IF responses = <<>> THEN Responses ELSE {responses[i] : i \in DOMAIN responses}

\* top of the loop: one GetByResource with the current cursor
PollFetch ==
  /\ cmd = "poll" /\ pc = "fetch"
  /\ FetchCount < MaxFetches
  /\ \E resp \in PollAnswers(server) :
       LET g == GetByResource(resource, currentSync, <<resp>>)
       IN  /\ callCount' = callCount + Len(g.requests)
           /\ lastFetch' = Fetch(g.requests[1], g.err = NoError)
           /\ trace' = Append(trace, [op |-> "fetch", d |-> 0])
           /\ IF g.err # NoError
              THEN /\ pollErr' = g.err
                   /\ pc' = "send_error"
                   /\ UNCHANGED <<response, idx, fetched, currentSync, latestSync>>
              ELSE /\ response' = g.response
                   /\ idx' = 1
                   /\ fetched' = fetched \o g.response.Data
                   /\ latestSync' = IF g.response.Sync # "" THEN g.response.Sync
                                    ELSE latestSync
                   /\ currentSync' = PollOnSuccess(currentSync, g.response)
                   /\ pc' = IF g.response.Data = <<>> THEN "adopt" ELSE "send_event"
                   /\ UNCHANGED pollErr
  /\ UNCHANGED <<cmdVars, server, requests, result, eventsOpen, errorsOpen,
                 received, errorCount, cancelled, callVars, filterVars, listVars,
                 again, handshake, consumer, hookVars>>

\* eventsChan <- event, taken by the consumer (the channel is unbuffered)
PollSendEvent ==
  /\ cmd = "poll" /\ pc = "send_event" /\ eventsOpen
  /\ received' = Append(received, PollEvent(response, idx))
  /\ idx' = idx + 1
  /\ pc' = PollAfterSend(response, idx)
  /\ UNCHANGED <<cmdVars, extVars, opVars, currentSync, response, pollErr, eventsOpen,
                 errorsOpen, errorCount, fetched, lastFetch, trace>>

\* if response.Sync != "" { currentSync = response.Sync }
PollAdoptSync ==
  /\ cmd = "poll" /\ pc = "adopt"
  /\ currentSync' = PollAdopt(currentSync, response)
  /\ pc' = "sleep"
  /\ UNCHANGED <<cmdVars, extVars, opVars, response, idx, pollErr, eventsOpen, errorsOpen,
                 received, errorCount, fetched, lastFetch, trace>>

\* the caller has a receive on errorsChan among those it waits on
ReceivesErrors_never(c) == FALSE
ReceivesErrors(c) == c = "both"

\* errorsChan <- err, taken by the consumer; then sleep and continue
PollSendError ==
  /\ cmd = "poll" /\ pc = "send_error" /\ errorsOpen
  /\ ReceivesErrors(consumer)
  /\ errorCount' = errorCount + 1
  /\ LET n == PollOnError(currentSync)
     IN  /\ pc' = n.pc
         /\ currentSync' = n.currentSync
         /\ eventsOpen' = n.eventsOpen
         /\ errorsOpen' = n.errorsOpen
  /\ UNCHANGED <<cmdVars, extVars, opVars, response, idx, pollErr, received, fetched,
                 lastFetch, trace>>

\* time.Sleep(pollInterval) returns and the iteration ends: response and
\* err are variables of the loop body and go out of scope
PollSleep ==
  /\ cmd = "poll" /\ pc = "sleep"
  /\ trace' = Append(trace, [op |-> "sleep", d |-> pollInterval])
  /\ pc' = "fetch"
  /\ response' = NilResponse
  /\ idx' = 0
  /\ pollErr' = NoError
  /\ UNCHANGED <<cmdVars, extVars, opVars, currentSync, eventsOpen, errorsOpen, received,
                 errorCount, fetched, lastFetch>>

\* the caller wants the polling to stop; Poll takes no stop signal (it gets
\* the resource, the cursor and the interval, and hands back two receive-only
\* channels), so the wish changes nothing the goroutine reads
Cancel ==
  /\ cmd = "poll" /\ pc \notin {"start", "fatal"}
  /\ ~cancelled
  /\ cancelled' = TRUE
  /\ UNCHANGED <<cmdVars, opVars, pollVars, restVars>>

\* one call of Client.Get, Post, Put, Delete or PostForm
Methods == {"GET", "POST", "PUT", "DELETE", "POSTFORM"}
InitTransport ==
  /\ cmd = "transport" /\ resource \in Resources
  /\ syncToken = "" /\ pollInterval = 0
  /\ server \in [1..1 -> Responses]
  /\ pc = "idle"
  /\ InitOp /\ InitPollVars
  /\ cancelled = FALSE
  /\ method \in Methods /\ callResult = NoCall
  /\ InitFilterVars /\ InitListVars /\ InitMore
TransportCall ==
  /\ cmd = "transport" /\ ~callResult.done
  /\ LET r == IF method = "POSTFORM"
              THEN PostForm(Answer(Remaining(server, callCount)))
              ELSE doRequest(Answer(Remaining(server, callCount)))
     IN  callResult' = [done |-> TRUE, body |-> r.body, err |-> r.err]
  /\ callCount' = callCount + 1
  /\ UNCHANGED <<cmdVars, server, requests, result, pollVars, cancelled, method,
                 filterVars, listVars, moreVars>>

\* event pages that name a next page
NextPageResponses ==
  {HttpResponse(200, PageBodyNext(d, s, h, "o1")) :
     d \in SeqsUpTo(Events, MaxPageLen), s \in Syncs, h \in BOOLEAN}
\* `events get --filter`: any one answer of the server, any filter
InitFilter ==
  /\ cmd = "get" /\ resource \in Resources
  /\ syncToken = "" /\ pollInterval = 0
  /\ server \in [1..1 -> Responses \cup NextPageResponses]
  /\ pc = "idle"
  /\ InitOp /\ InitPollVars
  /\ cancelled = FALSE /\ InitCall
  /\ filter \in FilterExprs /\ output = NoOutput /\ evals = 0
  /\ InitListVars /\ InitMore

\* a listing function called with its arguments
Limits == {0, 1}
InitList ==
  /\ cmd = "list" /\ resource \in Resources
  /\ syncToken = "" /\ pollInterval = 0
  /\ server = <<>>
  /\ pc = "loop"
  /\ InitOp /\ InitPollVars
  /\ cancelled = FALSE /\ InitCall /\ InitFilterVars
  /\ listArgs \in [fn : ListFunctions, flag : BOOLEAN, limit : Limits]
  /\ params = InitialParams(listArgs)
  /\ allItems = <<>> /\ listPage = NoListPage /\ listResult = NoListResult
  /\ InitMore
\* one turn of the loop: the request with the current parameters, its
\* answer, and what the loop does with it
ListFetch ==
  /\ cmd = "list" /\ pc = "loop"
  /\ callCount < MaxListRequests
  /\ \E resp \in ListResponses :
       LET r == doRequest(resp)
           u == UnmarshalList(r.body)
           items == allItems \o Collect(listArgs, u.page.Data)
       IN  /\ requests' = Append(requests, params)
           /\ server' = Append(server, resp)
           /\ callCount' = callCount + 1
           /\ IF r.err # NoError
              THEN /\ listResult' = ListFail(allItems, Wrap(ListWrap(listArgs.fn), r.err))
                   /\ pc' = "done"
                   /\ UNCHANGED <<params, allItems, listPage>>
              ELSE IF ~u.ok
              THEN /\ listResult' =
                        ListFail(allItems,
                                 Error("failed to parse response", "parse", 0, "", FALSE, NoBody))
                   /\ pc' = "done"
                   /\ UNCHANGED <<params, allItems, listPage>>
              ELSE /\ allItems' = items
                   /\ listPage' = u.page
                   /\ IF ListMore(u.page)
                      THEN /\ params' = [params EXCEPT !.offset = u.page.NextPage.Offset]
                           /\ pc' = "loop"
                           /\ UNCHANGED listResult
                      ELSE /\ listResult' = ListReturn(items)
                           /\ pc' = "done"
                           /\ UNCHANGED params
  /\ UNCHANGED <<cmdVars, result, currentSync, response, idx, pollErr, eventsOpen,
                 errorsOpen, received, errorCount, fetched, lastFetch, trace,
                 cancelled, callVars, filterVars, listArgs, moreVars>>

\* `events get` without --sync, then `events get --sync` with the sync that
\* the first run printed; the server has one answer for each run
InitRoundTrip ==
  /\ cmd = "roundtrip" /\ resource \in Resources
  /\ syncToken = "" /\ pollInterval = 0
  /\ server \in {<<r, f>> : r \in Responses, f \in FollowUps}
  /\ pc = "idle"
  /\ InitOp /\ InitPollVars /\ InitExt
RoundTripFirst ==
  /\ cmd = "roundtrip" /\ ~result.done
  /\ LET g == GetByResource(resource, syncToken, Remaining(server, callCount))
     IN  /\ requests' = requests \o g.requests
         /\ callCount' = callCount + Len(g.requests)
         /\ result' = [done |-> TRUE, response |-> g.response, err |-> g.err]
  /\ UNCHANGED <<cmdVars, server, pollVars, extVars>>
RoundTripSecond ==
  /\ cmd = "roundtrip" /\ result.done /\ result.err = NoError /\ ~again.done
  /\ LET g == GetByResource(resource, result.response.Sync, Remaining(server, callCount))
     IN  /\ requests' = requests \o g.requests
         /\ callCount' = callCount + Len(g.requests)
         /\ again' = [done |-> TRUE, response |-> g.response, err |-> g.err]
  /\ UNCHANGED <<cmdVars, server, result, pollVars, cancelled, callVars, filterVars,
                 listVars, handshake, latestSync, consumer, hookVars>>

\* `events get` or `events sync` on any resource, one answer of the server
ResourceIds == {"r1", "r2"}
InitRequests ==
  /\ cmd \in {"get", "sync"}
  /\ resource \in ResourceIds
  /\ syncToken \in (IF cmd = "get" THEN Syncs ELSE {""})
  /\ pollInterval = 0
  /\ server \in [1..1 -> Responses]
  /\ pc = "idle"
  /\ InitOp /\ InitPollVars /\ InitExt

\* Poll called with a token by either kind of caller, against a server that
\* fails, refuses, or answers with a page of zero, one or two events
PollRepertoire ==
  << NetFailure,
     HttpResponse(400, ErrorsBody(<<"m1">>)),
     HttpResponse(200, PageBody(<<>>, "t2", FALSE)),
     HttpResponse(200, PageBody(<<"e1">>, "", FALSE)),
     HttpResponse(200, PageBody(<<"e2", "e1">>, "t2", TRUE)) >>
InitPollConsumers ==
  /\ cmd = "poll"
  /\ resource \in Resources
  /\ syncToken \in {"t1", "t2"}
  /\ pollInterval = 1
  /\ server = PollRepertoire
  /\ pc = "start"
  /\ InitOp /\ InitPollVars
  /\ cancelled = FALSE /\ InitCall /\ InitFilterVars /\ InitListVars
  /\ InitMoreBase
  /\ consumer \in Consumers

\* values of the flags --action, --resource-type, --resource-subtype
HookFlags ==
  { <<"", "", "">>, <<"changed", "", "">>, <<"all", "task", "">>,
    <<"", "task", "">>, <<"", "", "milestone">>,
    <<"changed", "task", "milestone">> }
\* a webhook on the server (or none), and a filter command that starts
InitWebhook ==
  /\ cmd = "webhook" /\ resource \in Resources
  /\ syncToken = "" /\ pollInterval = 0
  /\ server = <<>>
  /\ pc = "idle"
  /\ InitOp /\ InitPollVars
  /\ cancelled = FALSE /\ InitCall /\ InitFilterVars /\ InitListVars
  /\ again = NoResult /\ handshake = NoHandshake /\ latestSync = ""
  /\ consumer = "both"
  /\ hook \in {NoWebhook} \cup
              {Webhook(act, "u1", resource, fs) :
                 act \in BOOLEAN, fs \in SeqsUpTo(StoredFilters, MaxFilters)}
  /\ hookArgs \in {HookArgs(op, f[1], f[2], f[3], 0, FALSE) :
                     op \in {"add", "edit", "delete"}, f \in HookFlags}
  /\ puts = <<>> /\ hookResult = ""
  /\ hookPc = "get" /\ hookLocal = NoHookLocal /\ hookCalls = <<>>
HookFrame ==
  UNCHANGED <<cmdVars, opVars, pollVars, cancelled, callVars, filterVars, listVars,
              again, handshake, latestSync, consumer>>
\* the command once it has what it needs to compute the new filters: it
\* stops, or goes on to UpdateFilters
FilterPlanned(op, w, args) ==
  LET plan == FilterPlan(op, w.Filters, args)
  IN  IF plan.stop # ""
      THEN /\ hookResult' = plan.stop /\ hookPc' = "done"
           /\ hookLocal' = HookLocal(w, w.Filters)
      ELSE /\ hookResult' = hookResult /\ hookPc' = "put"
           /\ hookLocal' = HookLocal(w, plan.filters)
\* webhookManager.Get(gid) answers: a fatal error, a nil webhook (whose
\* Filters the command then reads: nil pointer dereference), or the webhook
FilterGet(op) ==
  /\ cmd = "webhook" /\ hookArgs.op = op /\ hookPc = "get"
  /\ \E resp \in GetOutcomes(hook) :
       LET r == WebhookResult(resp, "failed to get webhook")
       IN  IF r.err # ""
           THEN hookResult' = "fatal" /\ hookPc' = "done" /\ UNCHANGED hookLocal
           ELSE IF r.isNil
           THEN hookResult' = "panic" /\ hookPc' = "done" /\ UNCHANGED hookLocal
           ELSE IF Prompts(op, r.webhook.Filters)
           THEN /\ hookPc' = "prompt" /\ UNCHANGED hookResult
                /\ hookLocal' = HookLocal(r.webhook, r.webhook.Filters)
           ELSE FilterPlanned(op, r.webhook, hookArgs)
  /\ UNCHANGED <<hook, hookArgs, puts, hookCalls>>
  /\ HookFrame
\* what can be typed: an answer to the confirmation (Scanln), or a number
\* or something that is no number (Scanf)
TypedInputs(op, fs) ==
  IF op = "delete" /\ Len(fs) = 1
  THEN {[badInput |-> FALSE, choice |-> 0, confirm |-> y] : y \in BOOLEAN}
  ELSE {[badInput |-> FALSE, choice |-> c, confirm |-> FALSE] :
          c \in 0..(Len(fs) + 1)}
       \cup {[badInput |-> TRUE, choice |-> 0, confirm |-> FALSE]}
\* the answer to the prompt arrives
FilterPrompt(op) ==
  /\ cmd = "webhook" /\ hookArgs.op = op /\ hookPc = "prompt"
  /\ \E typed \in TypedInputs(op, hookLocal.filters) :
       /\ hookArgs' = [hookArgs EXCEPT !.badInput = typed.badInput,
                                       !.choice = typed.choice,
                                       !.confirm = typed.confirm]
       /\ FilterPlanned(op, hookLocal.webhook, hookArgs')
  /\ UNCHANGED <<hook, puts, hookCalls>>
  /\ HookFrame
\* webhookManager.UpdateFilters(gid, filters) answers
FilterPut(op) ==
  /\ cmd = "webhook" /\ hookArgs.op = op /\ hookPc = "put"
  /\ \E o \in PutOutcomes(hook, UpdateFilters(hookLocal.filters)) :
       LET r == WebhookResult(o.resp, "failed to update webhook filters")
       IN  /\ hook' = o.hook
           /\ puts' = Append(puts, [by |-> "filters",
                                    body |-> UpdateFilters(hookLocal.filters),
                                    err |-> r.err])
           /\ hookResult' = IF r.err # "" THEN "fatal" ELSE "printed"
           /\ hookLocal' = IF r.err # "" THEN hookLocal
                           ELSE [hookLocal EXCEPT !.webhook = r.webhook]
  /\ hookPc' = "done"
  /\ UNCHANGED <<hookArgs, hookCalls>>
  /\ HookFrame
\* the commands `webhook filter add|edit|delete`
WebhookFilterAdd == FilterGet("add") \/ FilterPut("add")
WebhookFilterEdit == FilterGet("edit") \/ FilterPrompt("edit") \/ FilterPut("edit")
WebhookFilterDelete ==
  FilterGet("delete") \/ FilterPrompt("delete") \/ FilterPut("delete")

\* calls of other clients of the same webhook, at any moment
HookFilterLists == {<<>>, <<WebhookFilter("changed", "task", "")>>}
HookCall(op, r) == [op |-> op, err |-> r.err, isNil |-> r.isNil]
WebhookUpdate ==
  /\ cmd = "webhook" /\ Len(hookCalls) < MaxHookCalls
  /\ \E fs \in HookFilterLists :
       \E o \in PutOutcomes(hook, Update(fs)) :
         LET r == WebhookResult(o.resp, "failed to update webhook")
         IN  /\ hook' = o.hook
             /\ puts' = Append(puts, [by |-> "update", body |-> Update(fs),
                                      err |-> r.err])
             /\ hookCalls' = Append(hookCalls, HookCall("Update", r))
  /\ UNCHANGED <<hookArgs, hookResult, hookPc, hookLocal>>
  /\ HookFrame
WebhookCreate ==
  /\ cmd = "webhook" /\ Len(hookCalls) < MaxHookCalls
  /\ \E res \in Resources, fs \in HookFilterLists :
       \E o \in PostOutcomes(hook, Create(res, "u1", fs)) :
         LET r == WebhookResult(o.resp, "failed to create webhook")
         IN  /\ hook' = o.hook
             /\ hookCalls' = Append(hookCalls, HookCall("Create", r))
  /\ UNCHANGED <<hookArgs, puts, hookResult, hookPc, hookLocal>>
  /\ HookFrame
WebhookDelete ==
  /\ cmd = "webhook" /\ Len(hookCalls) < MaxHookCalls
  /\ \E o \in DeleteOutcomes(hook) :
       LET err == IF doRequest(o.resp).err # NoError
                  THEN "failed to delete webhook" ELSE ""
       IN  /\ hook' = o.hook
           /\ hookCalls' = Append(hookCalls, [op |-> "Delete", err |-> err,
                                              isNil |-> TRUE])
  /\ UNCHANGED <<hookArgs, puts, hookResult, hookPc, hookLocal>>
  /\ HookFrame

NextGet == EventsGet
NextSync == EventsSync
NextPoll ==
  \/ PollStart
  \/ PollFetch
  \/ PollSendEvent
  \/ PollAdoptSync
  \/ PollSendError
  \/ PollSleep
NextTransport == TransportCall
NextList == ListFetch
NextRoundTrip == RoundTripFirst \/ RoundTripSecond
NextRequests == EventsGet \/ EventsSync
NextWebhook ==
  \/ WebhookFilterAdd
  \/ WebhookFilterEdit
  \/ WebhookFilterDelete
  \/ WebhookUpdate
  \/ WebhookCreate
  \/ WebhookDelete

\* every command and operation
Init ==
  \/ InitGet \/ InitSync \/ InitPoll \/ InitTransport \/ InitFilter \/ InitList
  \/ InitRoundTrip \/ InitRequests \/ InitPollConsumers \/ InitWebhook
Next ==
  \/ NextGet \/ NextSync \/ NextPoll \/ Cancel \/ NextTransport \/ NextList
  \/ NextRoundTrip \/ NextWebhook

Spec == Init /\ [][Next]_vars
SpecGet == InitGet /\ [][NextGet]_vars
SpecFilter == InitFilter /\ [][NextGet]_vars
SpecList == InitList /\ [][NextList]_vars
SpecRoundTrip == InitRoundTrip /\ [][NextRoundTrip]_vars
SpecRequests == InitRequests /\ [][NextRequests]_vars
\* the goroutine of Poll and its caller are scheduled: a step that can be
\* taken is taken
SpecPollFair == InitPollConsumers /\ [][NextPoll]_vars /\ WF_vars(NextPoll)
SpecWebhook == InitWebhook /\ [][NextWebhook]_vars
SpecSync == InitSync /\ [][NextSync]_vars
SpecTransport == InitTransport /\ [][NextTransport]_vars
SpecPoll == InitPoll /\ [][NextPoll]_vars
NextPollCancel == NextPoll \/ Cancel
SpecPollCancel == InitPoll /\ [][NextPollCancel]_vars

(***************************************************************************)
(* Properties of `events get` (GetByResource).                             *)
(***************************************************************************)
\* answer i of the script is a page the client accepts
IsPage(resp) == doRequest(resp).err = NoError /\ Unmarshal(resp.body).ok
PageOf(resp) == Unmarshal(resp.body).response
\* the script is N pages, has_more true on pages 1..N-1 and false on page N
IsDrainScript(script) ==
  /\ \A i \in DOMAIN script : IsPage(script[i])
  /\ \A i \in DOMAIN script : PageOf(script[i]).HasMore = (i < Len(script))
RECURSIVE ConcatData(_)
ConcatData(script) ==
  IF script = <<>> THEN <<>>
  ELSE PageOf(Head(script)).Data \o ConcatData(Tail(script))

\* C1 (as claimed): against N pages, has_more true on all but the last, the
\* get-events operation issues exactly N requests, the first with the
\* caller's cursor and each later one with the sync of the page before it.
C1_DrainIssuesNRequests ==
  (cmd = "get" /\ result.done /\ IsDrainScript(server)) =>
    /\ Len(requests) = Len(server)
    /\ callCount = Len(server)
    /\ requests[1] = Request(resource, syncToken)
    /\ \A i \in 2..Len(requests) :
         requests[i] = Request(resource, PageOf(server[i - 1]).Sync)

\* C2 (as claimed): the get-events operation returns the concatenation of
\* the events of all pages up to the first with has_more=false, in page
\* order, and the sync of that last page.
C2_DrainReturnsAllPages ==
  (cmd = "get" /\ result.done /\ IsDrainScript(server)) =>
    /\ result.err = NoError
    /\ result.response.Data = ConcatData(server)
    /\ result.response.Sync = PageOf(server[Len(server)]).Sync

\* C4: one call of GetByResource performs exactly one HTTP request, whatever
\* the answer is and whatever its has_more flag says.
C4_SingleFetch ==
  (cmd = "get" /\ result.done) =>
    /\ Len(requests) = 1
    /\ callCount = 1
    /\ requests[1] = Request(resource, syncToken)
C4_Witness ==
  /\ cmd = "get" /\ result.done /\ result.err = NoError
  /\ result.response.HasMore
  /\ Len(server) = MaxPages
  /\ callCount = 1

\* a transport error of GetByResource: the HTTP layer failed or answered
\* with an error status
IsTransportError(e) ==
  e.wrap = "failed to get events" /\ e.kind \in {"request failed", "API error"}

\* C5 (as claimed): GetByResource signals a transport error exactly when the
\* HTTP layer fails or the status is >= 400 and not 412.
C5_Original ==
  (cmd = "get" /\ result.done) =>
    (IsTransportError(result.err) <=>
       (server[1].net \/ (server[1].status >= 400 /\ server[1].status # 412)))

\* C5 (amended): GetByResource signals a transport error exactly when the
\* HTTP layer fails or the status is >= 400, 412 included; an error status
\* yields the API error that carries this status, so that a 412 answer is
\* the same kind of error as any other and is told apart by its status only.
C5_TransportError ==
  (cmd = "get" /\ result.done) =>
    /\ IsTransportError(result.err) <=> (server[1].net \/ server[1].status >= 400)
    /\ (~server[1].net /\ server[1].status >= 400) =>
         /\ result.err.kind = "API error"
         /\ result.err.status = server[1].status
         /\ result.response = NilResponse
    /\ server[1].net => result.err.kind = "request failed"
C5_Witness ==
  /\ cmd = "get" /\ result.done
  /\ server[1].status = 412 /\ server[1].body.type = "page"
  /\ server[1].body.sync = "t1"
  /\ result.err.kind = "API error" /\ result.err.status = 412

(***************************************************************************)
(* Properties of `events sync` (InitializeSync).                           *)
(***************************************************************************)
\* C3: when the answer to InitializeSync has status 412 and a body that
\* parses as an event page, InitializeSync returns that page, with its sync,
\* and no error.
C3_CursorExpiredIsSuccess ==
  (cmd = "sync" /\ result.done /\ ~server[1].net /\ server[1].status = 412
     /\ Unmarshal(server[1].body).ok) =>
    /\ result.err = NoError
    /\ result.response =
         EventsResponse(server[1].body.data, server[1].body.sync, server[1].body.has_more)
C3_Witness ==
  /\ cmd = "sync" /\ result.done
  /\ server[1].status = 412 /\ server[1].body.type = "page"
  /\ result.err = NoError
  /\ result.response.Sync = "t2"
  /\ Len(result.response.Data) = MaxPageLen

(***************************************************************************)
(* Properties of `events poll` (Poll).                                     *)
(***************************************************************************)
\* the Poll goroutine is running
Polling == cmd = "poll" /\ pc \notin {"start", "fatal"}
\* the events of the current page sent so far
Sent == SubSeq(response.Data, 1, idx - 1)

\* C6: in a cycle whose fetch succeeds the events of the page are sent in
\* their in-page order; the cursor changes only in the step that follows
\* the receipt of the last event, where it becomes the sync of the page
\* and the loop goes to sleep; while an event of the page is undelivered the
\* cursor is the one the page was fetched with.
C6_AdoptAfterDelivery ==
  /\ [](Polling /\ pc \in {"send_event", "adopt"} =>
          /\ idx \in 1..(Len(response.Data) + 1)
          /\ Len(received) >= Len(Sent)
          /\ SubSeq(received, Len(received) - Len(Sent) + 1, Len(received)) = Sent
          /\ (pc = "adopt") = (idx = Len(response.Data) + 1))
  /\ [](Polling /\ pc = "send_event" => currentSync = lastFetch.sync)
  /\ [][(Polling /\ currentSync' # currentSync) =>
          /\ pc = "adopt" /\ pc' = "sleep"
          /\ Sent = response.Data
          /\ received = fetched
          /\ currentSync' = response.Sync]_vars
  /\ [][(Polling /\ lastFetch.ok /\ pc # "sleep" /\ pc' = "sleep") =>
          /\ received' = fetched'
          /\ currentSync' = (IF response.Sync # "" THEN response.Sync ELSE currentSync)]_vars
C6_Witness ==
  /\ Polling /\ pc = "sleep" /\ lastFetch.ok
  /\ Len(response.Data) = 2 /\ response.Data[1] # response.Data[2]
  /\ received = response.Data
  /\ currentSync = response.Sync /\ currentSync # lastFetch.sync

\* C7: a failed fetch is followed by the sending of its error on the errors
\* channel, then by the sleep, then by the next fetch; the loop never exits
\* and neither channel is ever closed, however many fetches fail in a row.
C7_RetryForever ==
  /\ [](Polling => pc # "exited" /\ eventsOpen /\ errorsOpen)
  /\ [][(Polling /\ pc = "fetch" /\ ~lastFetch'.ok /\ pc' # pc) =>
          pc' = "send_error" /\ pollErr' # NoError /\ errorCount' = errorCount]_vars
  /\ [][(Polling /\ pc = "send_error" /\ pc' # pc) =>
          pc' = "sleep" /\ errorCount' = errorCount + 1]_vars
  /\ [][(Polling /\ pc = "sleep" /\ pc' # pc) => pc' = "fetch"]_vars
C7_Witness ==
  /\ Polling /\ pc = "fetch"
  /\ FetchCount = 2 /\ errorCount = 2
  /\ eventsOpen /\ errorsOpen

\* C8: after a failed fetch the current cursor is the one that fetch was
\* issued with, and the next fetch is issued with exactly that cursor.
C8_CursorKeptOnFailure ==
  /\ [](Polling /\ lastFetch.made /\ ~lastFetch.ok => currentSync = lastFetch.sync)
  /\ [][(Polling /\ pc = "fetch" /\ pc' # pc /\ lastFetch.made /\ ~lastFetch.ok) =>
          lastFetch'.sync = lastFetch.sync]_vars
C8_Witness ==
  /\ Polling /\ FetchCount = 2 /\ errorCount = 1
  /\ lastFetch.ok /\ lastFetch.sync = "t1"

\* C9: the events received on the events channel are always a prefix of the
\* concatenation, in fetch order, of the Data of the pages fetched
\* successfully, and all of it whenever the loop is not sending events.
C9_PollOrdering ==
  Polling =>
    /\ Len(received) <= Len(fetched)
    /\ received = SubSeq(fetched, 1, Len(received))
    /\ pc # "send_event" => received = fetched
C9_Witness ==
  /\ Polling /\ FetchCount = 2 /\ errorCount = 0
  /\ received = <<"e1", "e2", "e1">>
  /\ Len(response.Data) = 1

\* C10: the loop alternates fetch and sleep, starting with a fetch; every
\* sleep lasts the configured interval; every cycle makes one HTTP request;
\* the loop has no terminal state.
C10_FetchSleepAlternation ==
  Polling =>
    /\ \A i \in DOMAIN trace :
         trace[i] = (IF i % 2 = 1 THEN [op |-> "fetch", d |-> 0]
                     ELSE [op |-> "sleep", d |-> pollInterval])
    /\ callCount = FetchCount + Len(requests)
    /\ pc \in {"fetch", "send_event", "send_error", "adopt", "sleep"}
    /\ (pc = "fetch") = (Len(trace) % 2 = 0)
C10_Witness ==
  /\ Polling /\ pc = "sleep" /\ response.HasMore
  /\ errorCount = 1 /\ Len(trace) = 3
  /\ pollInterval = 5

\* C11: the events fetched and not yet received are exactly the unsent rest
\* of the current page, so never more than one page; while one of them is
\* undelivered the loop is at its send and has not gone on to adopt, sleep
\* or fetch.
C11_BackPressure ==
  Polling =>
    /\ pc = "send_event" =>
         /\ idx \in 1..Len(response.Data)
         /\ fetched = received \o SubSeq(response.Data, idx, Len(response.Data))
    /\ Len(fetched) - Len(received) <= Len(response.Data)
    /\ received # fetched => pc = "send_event"
C11_Witness ==
  /\ Polling /\ pc = "send_event" /\ FetchCount = 2
  /\ Len(response.Data) = 2 /\ idx = 2
  /\ Len(received) = 3 /\ Len(fetched) = 4

\* C12 (as claimed): once the cancellation is triggered the loop does not
\* enter the Fetching state again and issues no further fetch, and when it
\* stops both channels are closed.
C12_CancelStopsFetching ==
  [][cancelled =>
       /\ (pc # "fetch" => pc' # "fetch")
       /\ (pc = "sleep" => ~eventsOpen' /\ ~errorsOpen')]_vars

\* C13: a fetch issued with an empty cursor carries no sync parameter; the
\* first fetch is issued with the cursor Poll was given; when the first
\* fetch was issued with an empty cursor and succeeded, its events are
\* received and its sync is the cursor after the cycle; the only errors of a
\* cycle are failures of the request, error statuses and undecodable bodies.
C13_EmptyInitialCursor ==
  Polling =>
    /\ lastFetch.made => (lastFetch.hasSync <=> lastFetch.sync # "")
    /\ FetchCount = 1 => lastFetch.sync = syncToken
    /\ (FetchCount = 1 /\ syncToken = "" /\ lastFetch.ok /\ pc = "sleep") =>
         received = response.Data /\ currentSync = response.Sync
    /\ pc = "send_error" =>
         /\ ~lastFetch.ok
         /\ pollErr.kind \in {"request failed", "API error", "parse"}
         /\ pollErr.kind = "API error" => pollErr.status >= 400
C13_Witness ==
  /\ Polling /\ FetchCount = 1 /\ syncToken = ""
  /\ lastFetch.made /\ ~lastFetch.hasSync /\ lastFetch.ok
  /\ pc = "sleep"
  /\ received = <<"e1", "e2">> /\ currentSync = "t1"

\* C14: when the page fetch that `events get` issues fails, by the HTTP
\* layer, by an error status or by a body that does not decode, the
\* operation returns that error and no page; an error never comes with
\* events, also when the failing answer carries some.
C14_AbortOnError ==
  (cmd = "get" /\ result.done) =>
    /\ (server[1].net \/ server[1].status >= 400) =>
         IsTransportError(result.err) /\ result.response = NilResponse
    /\ (~server[1].net /\ server[1].status < 400 /\ server[1].body.type = "raw") =>
         result.err.kind = "parse" /\ result.response = NilResponse
    /\ result.err # NoError => result.response = NilResponse
    /\ result.err = NoError => result.response = PageOf(server[1])
C14_Witness ==
  /\ cmd = "get" /\ result.done /\ callCount = 1
  /\ server[1].status = 400 /\ server[1].body.type = "page"
  /\ server[1].body.data = <<"e1", "e2">>
  /\ result.err.kind = "API error" /\ result.response = NilResponse

\* C15 (as claimed): for every answer with a status >= 400 other than 412,
\* InitializeSync returns an API error that carries the status and the
\* server message: errors[0].message when the envelope parses with an entry,
\* otherwise the raw body, also when the body is not JSON.
C15_HardErrors ==
  (cmd = "sync" /\ result.done /\ ~server[1].net
     /\ server[1].status >= 400 /\ server[1].status # 412) =>
    /\ result.response = NilResponse
    /\ result.err.kind = "API error"
    /\ result.err.status = server[1].status
    /\ IF server[1].body.type # "raw" /\ Len(server[1].body.msgs) > 0
       THEN result.err.msg = server[1].body.msgs[1]
       ELSE result.err.raw /\ result.err.body = server[1].body

(***************************************************************************)
(* Properties of the transport (Client).                                   *)
(***************************************************************************)
\* C16 (as claimed): for every transport call an answer with status >= 400
\* yields an error and no body, the error carrying the status and
\* errors[0].message when the envelope parses with an entry and otherwise
\* the raw body; a status below 400 yields the body and no error.
C16_Original ==
  (cmd = "transport" /\ callResult.done /\ ~server[1].net) =>
    IF server[1].status >= 400
    THEN /\ callResult.body = NoBody
         /\ callResult.err.kind = "API error"
         /\ callResult.err.status = server[1].status
         /\ IF server[1].body.type # "raw" /\ Len(server[1].body.msgs) > 0
            THEN ~callResult.err.raw /\ callResult.err.msg = server[1].body.msgs[1]
            ELSE callResult.err.raw /\ callResult.err.body = server[1].body
    ELSE callResult.body = server[1].body /\ callResult.err = NoError

\* C16 (amended): as above, except that the fallback text of the error is
\* the response body with its leading and trailing white space removed.
C16_TransportErrors ==
  (cmd = "transport" /\ callResult.done /\ ~server[1].net) =>
    IF server[1].status >= 400
    THEN /\ callResult.body = NoBody
         /\ callResult.err.kind = "API error"
         /\ callResult.err.status = server[1].status
         /\ IF server[1].body.type # "raw" /\ Len(server[1].body.msgs) > 0
            THEN ~callResult.err.raw /\ callResult.err.msg = server[1].body.msgs[1]
            ELSE /\ callResult.err.raw
                 /\ callResult.err.body = TrimSpace(server[1].body)
    ELSE callResult.body = server[1].body /\ callResult.err = NoError
C16_Witness ==
  /\ cmd = "transport" /\ callResult.done /\ method = "DELETE"
  /\ server[1].status = 400 /\ server[1].body = RawBody(<<"\f", "x", "\n">>)
  /\ callResult.body = NoBody
  /\ callResult.err.kind = "API error" /\ callResult.err.status = 400
  /\ callResult.err.body = RawBody(<<"x">>)

(***************************************************************************)
(* Properties of the filter of `events get`.                               *)
(***************************************************************************)
\* the evaluation of the compiled filter on the event succeeds with true
Matches(e) ==
  LET r == Run(Compile(filter).program, EventMap(e))
  IN  ~r.err /\ r.value

\* C17: with a filter that compiles, the command prints the page with, as
\* its events, exactly the events whose evaluation succeeds and gives true,
\* in the order of the page; an event whose evaluation fails (a path through
\* an absent field) is left out and the command does not fail.
C17_FilterExclusion ==
  (cmd = "get" /\ result.done /\ result.err = NoError
     /\ filter # "" /\ Compile(filter).ok) =>
    /\ output.printed /\ output.fatal = ""
    /\ output.response.Data = SelectSeq(result.response.Data, Matches)
    /\ output.response.Sync = result.response.Sync
    /\ \A i \in DOMAIN result.response.Data :
         Run(Compile(filter).program, EventMap(result.response.Data[i])).err =>
           \A j \in DOMAIN output.response.Data :
             output.response.Data[j] # result.response.Data[i]
C17_Witness ==
  /\ cmd = "get" /\ result.done /\ result.err = NoError
  /\ filter = "event.change.field == \"name\""
  /\ result.response.Data = <<"e1", "e2">>
  /\ Run(Compile(filter).program, EventMap("e1")).err
  /\ output.printed /\ output.response.Data = <<"e2">>

\* C18: when the filter does not compile, the command dies with the compile
\* error without having evaluated any event and prints nothing.
C18_CompileFailureFatal ==
  (cmd = "get" /\ result.done /\ result.err = NoError
     /\ filter = "event.action ==") =>
    /\ ~Compile(filter).ok
    /\ output.fatal = "compile"
    /\ ~output.printed
    /\ evals = 0
C18_Witness ==
  /\ cmd = "get" /\ result.done /\ result.err = NoError
  /\ filter = "event.action ==" /\ ~Compile(filter).ok
  /\ Len(result.response.Data) = 2
  /\ output.fatal = "compile" /\ ~output.printed /\ evals = 0

(***************************************************************************)
(* Properties of the listings.                                             *)
(***************************************************************************)
Listing == cmd = "list"
\* request i of the listing was answered by a page that decodes
ListPageAt(i) == UnmarshalList(server[i].body).page
ListOkAt(i) == doRequest(server[i]).err = NoError /\ UnmarshalList(server[i].body).ok

\* C19: every request has its answer before the next one is issued; the
\* first request carries the parameters built from the arguments and no
\* offset; after a page the listing stops exactly when next_page is absent
\* or its offset is empty, and otherwise the next request is the same
\* request with offset set to the offset of next_page of that page.
C19_ListingPagination ==
  Listing =>
    /\ Len(requests) = callCount /\ Len(server) = callCount
    /\ callCount >= 1 =>
         requests[1] = InitialParams(listArgs) /\ requests[1].offset = ""
    /\ \A i \in 1..callCount :
         ListOkAt(i) =>
           LET np == ListPageAt(i).NextPage
               stop == ~np.present \/ np.Offset = ""
           IN  /\ stop => i = callCount /\ pc = "done" /\ listResult.err = NoError
               /\ ~stop =>
                    /\ i = callCount => (pc = "loop" /\ ~listResult.done
                                         /\ params = [requests[i] EXCEPT !.offset = np.Offset])
                    /\ i < callCount =>
                         requests[i + 1] = [requests[i] EXCEPT !.offset = np.Offset]
    /\ \A i \in 1..callCount : ~ListOkAt(i) => i = callCount /\ pc = "done"
C19_Witness ==
  /\ Listing /\ callCount = 2 /\ pc = "done"
  /\ listArgs.fn = "ListBySection" /\ listArgs.limit = 1
  /\ ListPageAt(1).NextPage = NextPageOf("o2")
  /\ requests[1].offset = "" /\ requests[2].offset = "o2"
  /\ requests[2].limit = 1 /\ requests[2].scope = "section"
  /\ ListPageAt(2).NextPage = NextPageOf("")
  /\ listResult.err = NoError

\* C20: when the request or the decoding of a page fails, the listing
\* returns the error of that page, the first one to fail, and a nil slice,
\* whatever was collected from the pages before; a listing that ends
\* without error returns a non-nil slice.
C20_ListingErrors ==
  (Listing /\ callCount >= 1) =>
    /\ ~ListOkAt(callCount) =>
         /\ listResult.done /\ listResult.isNil /\ listResult.items = <<>>
         /\ \A i \in 1..(callCount - 1) : ListOkAt(i)
         /\ IF doRequest(server[callCount]).err # NoError
            THEN listResult.err =
                   Wrap(ListWrap(listArgs.fn), doRequest(server[callCount]).err)
            ELSE listResult.err.kind = "parse"
    /\ (listResult.done /\ listResult.err # NoError) =>
         listResult.isNil /\ ~ListOkAt(callCount)
    /\ (listResult.done /\ listResult.err = NoError) =>
         ~listResult.isNil /\ listResult.items = allItems
C20_Witness ==
  /\ Listing /\ callCount = 2 /\ listResult.done
  /\ ListOkAt(1) /\ allItems = <<"a", "a">>
  /\ server[2] = HttpResponse(200, RawBody(<<"x">>))
  /\ listResult.err.kind = "parse"
  /\ listResult.isNil /\ listResult.items = <<>>

\* every page the server sent holds at most `limit` items
PagesWithinLimit ==
  \A i \in 1..callCount : ListOkAt(i) => Len(ListPageAt(i).Data) <= listArgs.limit

\* C21 (as claimed): a listing called with limit L > 0 returns at most L
\* items, also when the server never sends more than L items in a page.
C21_ResultLimit ==
  (Listing /\ listResult.done /\ listResult.err = NoError
     /\ listArgs.limit > 0 /\ PagesWithinLimit) =>
    Len(listResult.items) <= listArgs.limit

(***************************************************************************)
(* Properties of two runs of `events get` in a row.                        *)
(***************************************************************************)
\* C22: after a fetch with an empty cursor returned a page with has_more
\* false and cursor c, the next fetch passes c back as it is and, when the
\* server answers with a page without events, returns no event and no
\* error, so that the events of both fetches are those of the first.
C22_CursorRoundTrip ==
  (cmd = "roundtrip" /\ again.done /\ ~result.response.HasMore
     /\ IsPage(server[2]) /\ PageOf(server[2]).Data = <<>>) =>
    /\ callCount = 2
    /\ requests[1].resource = resource /\ ~requests[1].hasSync
    /\ requests[2].resource = resource
    /\ requests[2].sync = PageOf(server[1]).Sync
    /\ requests[2].hasSync <=> PageOf(server[1]).Sync # ""
    /\ again.err = NoError
    /\ again.response.Data = <<>>
    /\ result.response.Data \o again.response.Data = PageOf(server[1]).Data
C22_Witness ==
  /\ cmd = "roundtrip" /\ again.done /\ ~result.response.HasMore
  /\ result.response.Data = <<"e1", "e2">> /\ result.response.Sync = "t1"
  /\ requests[2].hasSync /\ requests[2].sync = "t1"
  /\ PageOf(server[2]).Data = <<>> /\ PageOf(server[2]).Sync = "t2"
  /\ again.err = NoError /\ again.response.Data = <<>>

(***************************************************************************)
(* Properties of the events requests.                                      *)
(***************************************************************************)
\* C23: the request of GetByResource carries the resource, and a sync
\* parameter exactly when the cursor given is not empty, with the cursor as
\* its value; the request of InitializeSync carries the resource and no
\* sync parameter.
C23_RequestShape ==
  result.done =>
    /\ Len(requests) = 1
    /\ requests[1].resource = resource
    /\ cmd = "get" =>
         /\ requests[1].hasSync <=> syncToken # ""
         /\ requests[1].hasSync => requests[1].sync = syncToken
    /\ cmd = "sync" => ~requests[1].hasSync
C23_Witness ==
  /\ cmd = "get" /\ result.done /\ resource = "r2" /\ syncToken = "t2"
  /\ requests = <<[resource |-> "r2", hasSync |-> TRUE, sync |-> "t2"]>>

(***************************************************************************)
(* Properties of the start of `events poll`.                               *)
(***************************************************************************)
\* C24: the command calls InitializeSync exactly when no sync token is
\* supplied, once, without sync parameter and before any fetch of Poll;
\* when the call fails the command dies and Poll is never started (no
\* channel, no fetch); when it succeeds Poll starts with the sync it
\* returned; when a token is supplied Poll starts with that token and no
\* InitializeSync request is made.
C24_StartState ==
  cmd = "poll" =>
    /\ pc = "start" => ~handshake.called /\ trace = <<>> /\ callCount = 0
    /\ handshake.called <=> Len(requests) = 1
    /\ Len(requests) <= 1
    /\ handshake.called => ~requests[1].hasSync /\ requests[1].resource = resource
    /\ pc = "fatal" <=> (handshake.called /\ ~handshake.ok)
    /\ pc = "fatal" => trace = <<>> /\ ~eventsOpen /\ ~errorsOpen /\ received = <<>>
    /\ (pc = "fetch" /\ trace = <<>>) =>
         currentSync = (IF handshake.called THEN handshake.sync ELSE syncToken)
    /\ FetchCount = 1 =>
         lastFetch.sync = (IF handshake.called THEN handshake.sync ELSE syncToken)
C24_StartStep ==
  (cmd = "poll" /\ pc = "start" /\ pc' # "start") =>
    /\ handshake'.called <=> syncToken = ""
    /\ syncToken # "" =>
         pc' = "fetch" /\ currentSync' = syncToken /\ callCount' = 0 /\ requests' = <<>>
    /\ syncToken = "" => callCount' = 1
C24_StartHandshake == [](C24_StartState) /\ [][C24_StartStep]_vars
C24_Witness ==
  /\ cmd = "poll" /\ handshake = [called |-> TRUE, ok |-> TRUE, sync |-> "t2"]
  /\ Len(requests) = 1 /\ FetchCount = 1
  /\ lastFetch.sync = "t2" /\ lastFetch.hasSync

(***************************************************************************)
(* Properties of the cursor of Poll.                                       *)
(***************************************************************************)
\* a fetch of Poll has returned a page whose sync is not adopted yet: its
\* events are being delivered, or the adoption is the next step
Delivering == pc \in {"send_event", "adopt"}

\* C25 (as claimed): at every point of a polling session the cursor is the
\* sync of the most recent successful fetch that returned a non-empty sync,
\* or the initial cursor if there is none.
C25_Original == Polling => currentSync = latestSync

\* C25 (amended): outside the delivery of a page the cursor is the sync of
\* the most recent successful fetch that returned a non-empty sync, or the
\* initial cursor if there is none; during the delivery it is still the
\* cursor the page was fetched with, and the adoption that ends the
\* delivery sets it to the sync of the page unless that is empty, which
\* leaves it unchanged; a cursor that is not empty never becomes empty.
C25_CursorState ==
  Polling =>
    /\ ~Delivering => currentSync = latestSync
    /\ Delivering =>
         /\ currentSync = lastFetch.sync
         /\ latestSync = (IF response.Sync # "" THEN response.Sync ELSE currentSync)
    /\ pc = "fetch" /\ trace = <<>> => currentSync = syncToken
C25_CursorStep ==
  Polling =>
    /\ currentSync # "" => currentSync' # ""
    /\ pc # "adopt" => currentSync' = currentSync
    /\ (pc = "adopt" /\ response.Sync = "") => currentSync' = currentSync
    /\ (pc = "adopt" /\ response.Sync # "") => currentSync' = response.Sync
C25_CursorInvariant == [](C25_CursorState) /\ [][C25_CursorStep]_vars
C25_Witness ==
  /\ Polling /\ pc = "sleep" /\ FetchCount = 2
  /\ syncToken = "t1" /\ lastFetch.sync = "t2" /\ lastFetch.ok
  /\ response.Sync = "" /\ currentSync = "t2" /\ latestSync = "t2"

(***************************************************************************)
(* Progress of Poll.                                                       *)
(***************************************************************************)
\* the poller waits on errorsChan for a caller that never receives from it
BlockedOnError == Polling /\ consumer = "events" /\ pc = "send_error"

\* C26: with a caller that receives from both channels the poller leaves
\* every send, every fetched event is eventually received and every fetch
\* error is eventually delivered; with a caller that receives from the
\* events channel only, the poller stays for ever in the send of its first
\* fetch error: no later fetch, no later event.
C26_PollProgress ==
  /\ (consumer = "both" /\ Polling /\ received # fetched) ~> (received = fetched)
  /\ \A k \in 0..MaxFetches :
       (consumer = "both" /\ pc = "send_error" /\ errorCount = k)
         ~> (pc = "sleep" /\ errorCount = k + 1)
  /\ [][BlockedOnError =>
          (BlockedOnError' /\ received' = received /\ trace' = trace)]_vars
  /\ [](BlockedOnError => errorCount = 0 /\ [](BlockedOnError))
  /\ [](consumer = "events" => errorCount = 0)
C26_Witness ==
  /\ Polling /\ consumer = "both" /\ FetchCount = 2
  /\ errorCount = 1 /\ Len(received) = 2 /\ received = fetched

(***************************************************************************)
(* Termination of the listings.                                            *)
(***************************************************************************)
\* page i of the listing ends it: next_page absent or with an empty offset
ListStopAt(i) ==
  ~ListPageAt(i).NextPage.present \/ ListPageAt(i).NextPage.Offset = ""
\* the requests answered so far were all answered by pages that go on
AllPagesGoOn == \A i \in 1..callCount : ListOkAt(i) /\ ~ListStopAt(i)

\* C27: a listing that returns without error has made exactly N requests,
\* where page N is the first page that ends the listing; as long as every
\* page names a next offset the listing has not returned and is about to
\* request the next page, however many pages it has read: the loop has no
\* counter and no limit of its own.
C27_ListingTermination ==
  Listing =>
    /\ (listResult.done /\ listResult.err = NoError) =>
         /\ callCount >= 1
         /\ ListOkAt(callCount) /\ ListStopAt(callCount)
         /\ \A i \in 1..(callCount - 1) : ListOkAt(i) /\ ~ListStopAt(i)
    /\ (callCount >= 1 /\ ListOkAt(callCount) /\ ListStopAt(callCount)) =>
         listResult.done /\ listResult.err = NoError /\ pc = "done"
    /\ AllPagesGoOn =>
         /\ ~listResult.done /\ pc = "loop"
         /\ callCount >= 1 => params.offset = ListPageAt(callCount).NextPage.Offset
         /\ params.offset # "" \/ callCount = 0
C27_Witness ==
  /\ Listing /\ callCount = MaxListRequests
  /\ \A i \in 1..(callCount - 1) : ListOkAt(i) /\ ~ListStopAt(i)
  /\ ListOkAt(callCount) /\ ListStopAt(callCount)
  /\ listResult.done /\ listResult.err = NoError
  /\ Len(listResult.items) = MaxListRequests * MaxPageLen

(***************************************************************************)
(* The completion filter of the task listings.                             *)
(***************************************************************************)
\* the tasks of the pages 1..n, page after page
RECURSIVE FetchedItems(_)
FetchedItems(n) ==
  IF n = 0 THEN <<>> ELSE FetchedItems(n - 1) \o ListPageAt(n).Data
\* the task is wanted: every task with completed = true, else the open ones
Wanted(item) == listArgs.flag \/ ~Completed(item)

\* C28: ListByProject, ListBySection and ListByAssignee return, in page
\* order and then in-page order, exactly the tasks of the fetched pages
\* that are wanted; with completed = false no completed task is returned
\* and every task that is not completed is.
C28_CompletionFilter ==
  (Listing /\ IsTaskListing(listArgs.fn)
     /\ listResult.done /\ listResult.err = NoError) =>
    /\ listResult.items = SelectSeq(FetchedItems(callCount), Wanted)
    /\ ~listArgs.flag =>
         /\ \A i \in DOMAIN listResult.items : ~Completed(listResult.items[i])
         /\ Len(listResult.items) =
              Cardinality({i \in DOMAIN FetchedItems(callCount) :
                             ~Completed(FetchedItems(callCount)[i])})
    /\ listArgs.flag => listResult.items = FetchedItems(callCount)
C28_Witness ==
  /\ Listing /\ listArgs.fn = "ListByAssignee" /\ ~listArgs.flag
  /\ listResult.done /\ listResult.err = NoError /\ callCount = 2
  /\ ListPageAt(1).Data = <<"b", "a">> /\ ListPageAt(2).Data = <<"a", "b">>
  /\ listResult.items = <<"a", "a">>

(***************************************************************************)
(* The frame of the filter of `events get`.                                *)
(***************************************************************************)
\* C29: with a filter that compiles, the response printed is the fetched
\* response with only its list of events replaced: sync, has_more and
\* next_page are those of the fetched page, whatever the filter removes.
C29_FilterFrame ==
  (cmd = "get" /\ result.done /\ result.err = NoError
     /\ filter # "" /\ Compile(filter).ok) =>
    /\ output.printed
    /\ result.response = PageOf(server[1])
    /\ output.response.Sync = PageOf(server[1]).Sync
    /\ output.response.HasMore = PageOf(server[1]).HasMore
    /\ output.response.NextPage = PageOf(server[1]).NextPage
    /\ [output.response EXCEPT !.Data = PageOf(server[1]).Data] = PageOf(server[1])
C29_Witness ==
  /\ cmd = "get" /\ result.done /\ result.err = NoError
  /\ filter = "event.action == \"added\""
  /\ server[1].body = PageBodyNext(<<"e1", "e2">>, "t1", TRUE, "o1")
  /\ output.printed /\ output.response.Data = <<>>
  /\ output.response.Sync = "t1" /\ output.response.HasMore
  /\ output.response.NextPage = NextPageOf("o1")

(***************************************************************************)
(* The frame of the webhook filter commands.                               *)
(***************************************************************************)
FilterPuts == {i \in DOMAIN puts : puts[i].by = "filters"}

\* C30: the filter commands send at most one PUT, whose body holds the
\* filters field and nothing else, so that no step of a filter command
\* changes the active status, the target or the resource of the webhook,
\* and the one step that changes the webhook sets its filters to the list
\* sent; the body of Update always holds active=false, and an Update that
\* succeeds leaves the webhook inactive.
C30_FrameState ==
  cmd = "webhook" =>
    /\ Cardinality(FilterPuts) <= 1
    /\ \A i \in FilterPuts : puts[i].body.keys = {"filters"}
    /\ hookResult = "printed" => \E i \in FilterPuts : puts[i].err = ""
    /\ \A i \in DOMAIN puts :
         puts[i].by = "update" =>
           "active" \in puts[i].body.keys /\ ~puts[i].body.active
C30_FrameStep ==
  cmd = "webhook" =>
    /\ hookPc' # hookPc =>
         /\ hook'.Active = hook.Active
         /\ hook'.Target = hook.Target
         /\ hook'.Resource = hook.Resource
         /\ hook' # hook => (hookPc = "put" /\ hook'.Filters = hookLocal.filters)
    /\ (/\ Len(puts') > Len(puts)
        /\ puts'[Len(puts')].by = "update"
        /\ puts'[Len(puts')].err = "") => ~hook'.Active
C30_WebhookFilterFrame == [](C30_FrameState) /\ [][C30_FrameStep]_vars
C30_Witness ==
  /\ cmd = "webhook" /\ hookArgs.op = "edit" /\ hookArgs.choice = 2
  /\ hookArgs.action = "changed" /\ hookResult = "printed"
  /\ hook.Active /\ hook.Target = "u1"
  /\ Len(hook.Filters) = 2 /\ hook.Filters[2].Action = "changed"
  /\ puts = <<[by |-> "filters", body |-> UpdateFilters(hook.Filters), err |-> ""]>>
  /\ hookCalls = <<>>
====
